---- MODULE Spec2Model ----
(***************************************************************************)
(* Model of the IngredientIQ scan view (ScanPage): the React component     *)
(* state, the refs, the Quagga barcode decoder, the getUserMedia stream of *)
(* the OCR camera, the asynchronous callbacks in flight and the requests   *)
(* sent through ApiService.                                                *)
(*                                                                         *)
(* A closure created in a render sees the state of that render.  An event  *)
(* handler invoked by the user runs in the current render; a callback      *)
(* handed to Quagga, to a promise or to an effect keeps the values of the  *)
(* render in which it was created.                                         *)
(***************************************************************************)
EXTENDS Integers, Sequences, FiniteSets, TLC

\* ---------------------------------------------------------------- bounds
\* Callbacks registered with the decoder over a run.
MaxHandlers == 3
\* Asynchronous operations (init callbacks, getUserMedia promises, toBlob
\* callbacks, requests) outstanding at once.
MaxAsync == 2
\* Media streams requested and not stopped.
MaxStreams == 1
\* Object URLs created over a run.
MaxUrls == 2

\* ----------------------------------------------------------------- texts
\* A text is a sequence of characters.
TypedTexts == { <<>>, <<" ">>, <<" ", "a">> }
Codes == { <<"a">>, <<"b">> }
NoCode == <<"?">>

RECURSIVE TrimStart(_)
TrimStart(s) == IF s # <<>> /\ Head(s) = " " THEN TrimStart(Tail(s)) ELSE s

RECURSIVE TrimEnd(_)
TrimEnd(s) ==
  IF s # <<>> /\ s[Len(s)] = " " THEN TrimEnd(SubSeq(s, 1, Len(s) - 1)) ELSE s

\* String.prototype.trim
Trim(s) == TrimEnd(TrimStart(s))

Tabs == { "barcode", "camera", "image" }

RemoveAt(s, i) == SubSeq(s, 1, i - 1) \o SubSeq(s, i + 1, Len(s))

VARIABLES
  route,               \* "scan" while ScanPage is mounted
  activeTab, barcode, loading, error, cameraActive, cameraError,
  selectedFile, previewUrl,
  effectCameraActive,  \* cameraActive seen by the registered effect cleanup
  quaggaRunning,       \* Quagga.start() .. Quagga.stop()
  handlers,            \* callbacks registered with Quagga.onDetected
  pendingInits,        \* Quagga.init calls whose callback has not run yet
  srcObject,           \* videoRef.current.srcObject is a stream
  liveStreams,         \* media streams whose tracks were not stopped
  pendingGUM,          \* getUserMedia promises not settled yet
  pendingBlobs,        \* canvas.toBlob callbacks not run yet
  inflight,            \* ApiService requests not answered yet
  ocrResult,           \* localStorage 'ocrResult'
  nextUrl, revoked,    \* object URLs created / revoked
  lastDetected,        \* the code whose detection produced this state
  \* ResultPage
  view,                \* "product" or "ocr": which of product / ocrResult
                       \* the page holds ("none": not mounted)
  ingredients,         \* the ingredient texts of the product / OCR result
  analyzingIngredients, analysisResults, analysisError,
  selectedIngredient, analysisModalOpen,
  listItems,           \* the ingredient list as rendered
  badges,              \* the badge contents of the analysis summary
  detailItems,         \* the Detailed Analysis list as rendered
  \* HistoryPage
  scanHistory,         \* localStorage 'scanHistory'
  historyMounted,      \* HistoryPage is shown
  history, filteredHistory, activeFilter, deleteDialogOpen,
  clearAllDialogOpen,
  selectedItem,        \* <<>> for null, << item >> for an item
  historyEvent,        \* the handler of HistoryPage that produced this state
  \* ResultPage, fetchData
  params,              \* the query parameters type and barcode / id
  effectParams,        \* the parameters the fetchData effect last ran with
  resultLoading, resultError, product,
  ocrShown,            \* the ocrResult state of ResultPage
  fetches,             \* lookups and OCR result fetches not answered yet
  timers,              \* redirect timers not fired yet
  \* ApiService
  apiCall,             \* the operation called last and the server's reply
  apiResult            \* the value it returned

scanVars == << route, activeTab, barcode, loading, error, cameraActive,
           cameraError, selectedFile, previewUrl, effectCameraActive,
           quaggaRunning, handlers, pendingInits, srcObject, liveStreams,
           pendingGUM, pendingBlobs, inflight, ocrResult, nextUrl, revoked,
           lastDetected >>

resultVars == << view, ingredients, analyzingIngredients, analysisResults,
                 analysisError, selectedIngredient, analysisModalOpen,
                 listItems, badges, detailItems >>

historyVars == << scanHistory, historyMounted, history, filteredHistory,
                  activeFilter, deleteDialogOpen, clearAllDialogOpen,
                  selectedItem, historyEvent >>

fetchVars == << params, effectParams, resultLoading, resultError,
                product, ocrShown, fetches, timers >>

apiVars == << apiCall, apiResult >>

\* The state of the scan view without the route, which the redirect of
\* fetchData changes, and without localStorage 'ocrResult', which fetchData
\* reads and removes.
scanViewVars == << activeTab, barcode, loading, error, cameraActive,
                   cameraError, selectedFile, previewUrl,
                   effectCameraActive, quaggaRunning, handlers,
                   pendingInits, srcObject, liveStreams, pendingGUM,
                   pendingBlobs, inflight, nextUrl, revoked, lastDetected >>

\* What the handlers of one view leave alone: the state of the other views.
notScanVars == << resultVars, historyVars, fetchVars, apiVars >>
notResultVars == << scanVars, historyVars, fetchVars, apiVars >>
notHistoryVars == << scanVars, resultVars, fetchVars, apiVars >>
notFetchVars == << scanViewVars, resultVars, historyVars, apiVars >>
notApiVars == << scanVars, resultVars, historyVars, fetchVars >>

vars == << scanVars, resultVars, historyVars, fetchVars, apiVars >>

mounted == route = "scan"

\* Callbacks and responses the view is still waiting for.
Outstanding ==
  Len(pendingInits) + pendingGUM + Len(pendingBlobs) + Len(inflight)

\* scannerRef.current / videoRef.current: the element exists while its tab
\* panel is rendered.
scannerRef == mounted /\ activeTab = "camera"
videoRef == mounted /\ activeTab = "image"

\* The values the analysis state of ResultPage has at construction.
NullResults == [null |-> TRUE, items |-> <<>>]

\* ResultPage is not mounted.
ResultPageAbsent ==
  /\ view = "none"
  /\ ingredients = <<>>
  /\ analyzingIngredients = FALSE
  /\ analysisResults = NullResults
  /\ analysisError = "null"
  /\ selectedIngredient = 0
  /\ analysisModalOpen = FALSE
  /\ listItems = <<>>
  /\ badges = [shown |-> FALSE, safe |-> 0, caution |-> 0, avoid |-> 0]
  /\ detailItems = <<>>

\* localStorage 'scanHistory': absent, or the array stored.
NoHistory == [present |-> FALSE, items |-> <<>>]

\* HistoryPage is not mounted and nothing is stored.
HistoryPageAbsent ==
  /\ scanHistory = NoHistory
  /\ historyMounted = FALSE
  /\ history = <<>>
  /\ filteredHistory = <<>>
  /\ activeFilter = "all"
  /\ deleteDialogOpen = FALSE
  /\ clearAllDialogOpen = FALSE
  /\ selectedItem = <<>>
  /\ historyEvent = "none"

\* No parameters: the result page is not shown.
NoParams == [type |-> "none", key |-> "none"]

\* The fetchData effect of ResultPage is not modelled.
FetchAbsent ==
  /\ params = NoParams
  /\ effectParams = NoParams
  /\ resultLoading = FALSE
  /\ resultError = "null"
  /\ product = "null"
  /\ ocrShown = "null"
  /\ fetches = <<>>
  /\ timers = <<>>

\* The server does not answer: the request fails in the network or runs
\* into the timeout of the axios instance.
NoReply == [status |-> "none", body |-> FALSE, success |-> "undefined",
            error |-> "undefined", message |-> "undefined"]

\* No operation of ApiService has been called.
NoCall == [op |-> "none", reply |-> NoReply]

NoResult == [threw |-> FALSE, data |-> "none", success |-> "undefined",
             message |-> "undefined"]

ApiAbsent == apiCall = NoCall /\ apiResult = NoResult

Init ==
  /\ ResultPageAbsent
  /\ HistoryPageAbsent
  /\ FetchAbsent
  /\ ApiAbsent
  /\ route = "scan"
  /\ activeTab \in Tabs
  /\ barcode = <<>>
  /\ loading = FALSE
  /\ error = "null"
  /\ cameraActive = FALSE
  /\ cameraError = "null"
  /\ selectedFile = 0
  /\ previewUrl = 0
  /\ effectCameraActive = FALSE
  /\ quaggaRunning = FALSE
  /\ handlers = <<>>
  /\ pendingInits = <<>>
  /\ srcObject = FALSE
  /\ liveStreams = 0
  /\ pendingGUM = 0
  /\ pendingBlobs = <<>>
  /\ inflight = <<>>
  /\ ocrResult = "none"
  /\ nextUrl = 0
  /\ revoked = {}
  /\ lastDetected = NoCode

\* ------------------------------------------------------------- requests
\* kind: "lookup" (lookupBarcode), "ocr" (processImage), "camera"
\* (processCameraImage).  decoded tells that the request comes from
\* handleBarcodeDetected.
Request(k, a, d) == [kind |-> k, arg |-> a, decoded |-> d]

\* The part of the state the barcode handlers touch.
HandlerState ==
  [running |-> quaggaRunning, cameraActive |-> cameraActive,
   barcode |-> barcode, loading |-> loading, error |-> error,
   inflight |-> inflight]

\* handleBarcodeSearch up to its await; b is the barcode of the render the
\* closure belongs to.
handleBarcodeSearch(b, decoded, st) ==
  IF Trim(b) = <<>>
    THEN [st EXCEPT !.error = "Please enter a barcode"]
    ELSE [st EXCEPT !.loading = TRUE,
                    !.error = "null",
                    !.inflight = Append(@, Request("lookup", Trim(b), decoded))]

\* handleBarcodeDetected(result) of the render whose barcode was b.
handleBarcodeDetected(b, code, st) ==
  IF code = NoCode
    THEN st
    ELSE handleBarcodeSearch(b, TRUE,
           [st EXCEPT !.running = FALSE,
                      !.cameraActive = FALSE,
                      !.barcode = code])

\* Quagga publishes a detection to every registered callback, in order of
\* registration.
RECURSIVE RunHandlers(_, _, _)
RunHandlers(hs, code, st) ==
  IF hs = <<>> THEN st
  ELSE RunHandlers(Tail(hs), code, handleBarcodeDetected(Head(hs), code, st))

\* A state setter of an unmounted component does nothing.
SetState(old, new) == IF mounted THEN new ELSE old

\* ------------------------------------------------------- barcode tab
handleBarcodeChange(t) ==
  /\ mounted /\ activeTab = "barcode" /\ ~loading
  /\ barcode' = t
  /\ error' = "null"
  /\ lastDetected' = NoCode
  /\ UNCHANGED << route, activeTab, loading, cameraActive, cameraError,
                  selectedFile, previewUrl, effectCameraActive,
                  quaggaRunning, handlers, pendingInits, srcObject,
                  liveStreams, pendingGUM, pendingBlobs, inflight,
                  ocrResult, nextUrl, revoked >>
  /\ UNCHANGED notScanVars

\* The Search button: disabled={loading || !barcode.trim()}.
SearchBarcode ==
  /\ mounted /\ activeTab = "barcode" /\ ~loading /\ Trim(barcode) # <<>>
  /\ Outstanding < MaxAsync
  /\ LET st == handleBarcodeSearch(barcode, FALSE, HandlerState)
     IN /\ loading' = st.loading
        /\ error' = st.error
        /\ inflight' = st.inflight
  /\ lastDetected' = NoCode
  /\ UNCHANGED << route, activeTab, barcode, cameraActive, cameraError,
                  selectedFile, previewUrl, effectCameraActive,
                  quaggaRunning, handlers, pendingInits, srcObject,
                  liveStreams, pendingGUM, pendingBlobs, ocrResult,
                  nextUrl, revoked >>
  /\ UNCHANGED notScanVars

\* -------------------------------------------------------- camera tab
\* startCamera -> initBarcodeScanner: Quagga.init is asynchronous; the
\* callback keeps handleBarcodeDetected of this render.
startCamera ==
  /\ mounted /\ activeTab = "camera" /\ ~cameraActive /\ ~loading
  /\ scannerRef
  /\ Outstanding < MaxAsync
  /\ cameraError' = "null"
  /\ pendingInits' = Append(pendingInits, barcode)
  /\ lastDetected' = NoCode
  /\ UNCHANGED << route, activeTab, barcode, loading, error, cameraActive,
                  selectedFile, previewUrl, effectCameraActive,
                  quaggaRunning, handlers, srcObject, liveStreams,
                  pendingGUM, pendingBlobs, inflight, ocrResult, nextUrl,
                  revoked >>
  /\ UNCHANGED notScanVars

\* The callback given to Quagga.init, with err.
QuaggaInitError(i) ==
  /\ i \in 1..Len(pendingInits)
  /\ pendingInits' = RemoveAt(pendingInits, i)
  /\ cameraError' =
       SetState(cameraError,
                "Could not initialize camera. Please check permissions.")
  /\ lastDetected' = NoCode
  /\ UNCHANGED << route, activeTab, barcode, loading, error, cameraActive,
                  selectedFile, previewUrl, effectCameraActive,
                  quaggaRunning, handlers, srcObject, liveStreams,
                  pendingGUM, pendingBlobs, inflight, ocrResult, nextUrl,
                  revoked >>
  /\ UNCHANGED notScanVars

\* The callback given to Quagga.init, without err.
QuaggaInitOk(i) ==
  /\ i \in 1..Len(pendingInits)
  /\ Len(handlers) < MaxHandlers
  /\ pendingInits' = RemoveAt(pendingInits, i)
  /\ quaggaRunning' = TRUE
  /\ cameraActive' = SetState(cameraActive, TRUE)
  /\ cameraError' = SetState(cameraError, "null")
  /\ handlers' = Append(handlers, pendingInits[i])
  /\ lastDetected' = NoCode
  /\ UNCHANGED << route, activeTab, barcode, loading, error, selectedFile,
                  previewUrl, effectCameraActive, srcObject, liveStreams,
                  pendingGUM, pendingBlobs, inflight, ocrResult, nextUrl,
                  revoked >>
  /\ UNCHANGED notScanVars

\* stopCamera of the current render (the Stop Camera button of the camera
\* tab).
stopCamera ==
  /\ mounted /\ activeTab = "camera" /\ cameraActive /\ ~loading
  /\ quaggaRunning' = FALSE
  /\ cameraActive' = FALSE
  /\ lastDetected' = NoCode
  /\ UNCHANGED << route, activeTab, barcode, loading, error, cameraError,
                  selectedFile, previewUrl, effectCameraActive, handlers,
                  pendingInits, srcObject, liveStreams, pendingGUM,
                  pendingBlobs, inflight, ocrResult, nextUrl, revoked >>
  /\ UNCHANGED notScanVars

\* The decoder reports a result while it runs.
onDetected(code) ==
  /\ quaggaRunning
  /\ LET st == RunHandlers(handlers, code, HandlerState)
     IN /\ Len(pendingInits) + pendingGUM + Len(pendingBlobs)
             + Len(st.inflight) <= MaxAsync
        /\ quaggaRunning' = st.running
        /\ inflight' = st.inflight
        /\ cameraActive' = SetState(cameraActive, st.cameraActive)
        /\ barcode' = SetState(barcode, st.barcode)
        /\ loading' = SetState(loading, st.loading)
        /\ error' = SetState(error, st.error)
  /\ lastDetected' = code
  /\ UNCHANGED << route, activeTab, cameraError, selectedFile, previewUrl,
                  effectCameraActive, handlers, pendingInits, srcObject,
                  liveStreams, pendingGUM, pendingBlobs, ocrResult,
                  nextUrl, revoked >>
  /\ UNCHANGED notScanVars

\* --------------------------------------------------------- image tab
\* stopCameraForOCR against a video element whose ref is ref.
StreamToStop(ref) == ref /\ srcObject

\* handleFileChange with a file that is not an image.
handleFileChangeRejected ==
  /\ mounted /\ activeTab = "image"
  /\ error' = "Please select an image file"
  /\ lastDetected' = NoCode
  /\ UNCHANGED << route, activeTab, barcode, loading, cameraActive,
                  cameraError, selectedFile, previewUrl,
                  effectCameraActive, quaggaRunning, handlers,
                  pendingInits, srcObject, liveStreams, pendingGUM,
                  pendingBlobs, inflight, ocrResult, nextUrl, revoked >>
  /\ UNCHANGED notScanVars

\* handleFileChange under an effect without dependencies: no cleanup runs
\* when previewUrl changes.
handleFileChangeNoCleanup ==
  /\ mounted /\ activeTab = "image"
  /\ nextUrl < MaxUrls
  /\ nextUrl' = nextUrl + 1
  /\ selectedFile' = nextUrl + 1
  /\ previewUrl' = nextUrl + 1
  /\ error' = "null"
  /\ lastDetected' = NoCode
  /\ UNCHANGED << route, activeTab, barcode, loading, cameraError, handlers,
                  pendingInits, pendingGUM, pendingBlobs, inflight,
                  ocrResult, quaggaRunning, liveStreams, srcObject,
                  cameraActive, revoked, effectCameraActive >>
  /\ UNCHANGED notScanVars

\* handleFileChange with an image file.  previewUrl changes, so the effect
\* of [previewUrl] is run again: the cleanup registered by the earlier
\* render runs (stopCamera and stopCameraForOCR of that render, revoke of
\* its previewUrl) and the cleanup of this render is registered.
handleFileChange ==
  /\ mounted /\ activeTab = "image"
  /\ nextUrl < MaxUrls
  /\ nextUrl' = nextUrl + 1
  /\ selectedFile' = nextUrl + 1
  /\ previewUrl' = nextUrl + 1
  /\ error' = "null"
  /\ LET stops == StreamToStop(videoRef)
     IN /\ quaggaRunning' = IF effectCameraActive THEN FALSE ELSE quaggaRunning
        /\ liveStreams' = IF stops THEN liveStreams - 1 ELSE liveStreams
        /\ srcObject' = IF stops THEN FALSE ELSE srcObject
        /\ cameraActive' =
             IF effectCameraActive \/ stops THEN FALSE ELSE cameraActive
  /\ revoked' = IF previewUrl # 0 THEN revoked \cup {previewUrl} ELSE revoked
  /\ effectCameraActive' = cameraActive
  /\ lastDetected' = NoCode
  /\ UNCHANGED << route, activeTab, barcode, loading, cameraError, handlers,
                  pendingInits, pendingGUM, pendingBlobs, inflight,
                  ocrResult >>
  /\ UNCHANGED notScanVars

\* The Upload & Process button: disabled={loading || !selectedFile}.
handleImageUpload ==
  /\ mounted /\ activeTab = "image" /\ ~loading /\ selectedFile # 0
  /\ Outstanding < MaxAsync
  /\ loading' = TRUE
  /\ error' = "null"
  /\ inflight' = Append(inflight, Request("ocr", <<>>, FALSE))
  /\ lastDetected' = NoCode
  /\ UNCHANGED << route, activeTab, barcode, cameraActive, cameraError,
                  selectedFile, previewUrl, effectCameraActive,
                  quaggaRunning, handlers, pendingInits, srcObject,
                  liveStreams, pendingGUM, pendingBlobs, ocrResult,
                  nextUrl, revoked >>
  /\ UNCHANGED notScanVars

\* startCameraForOCR up to its await.
startCameraForOCR ==
  /\ mounted /\ activeTab = "image" /\ ~cameraActive /\ ~loading
  /\ videoRef
  /\ pendingGUM + liveStreams < MaxStreams
  /\ Outstanding < MaxAsync
  /\ pendingGUM' = pendingGUM + 1
  /\ lastDetected' = NoCode
  /\ UNCHANGED << route, activeTab, barcode, loading, error, cameraActive,
                  cameraError, selectedFile, previewUrl,
                  effectCameraActive, quaggaRunning, handlers,
                  pendingInits, srcObject, liveStreams, pendingBlobs,
                  inflight, ocrResult, nextUrl, revoked >>
  /\ UNCHANGED notScanVars

\* getUserMedia rejects: the catch block.
GetUserMediaRejected ==
  /\ pendingGUM > 0
  /\ pendingGUM' = pendingGUM - 1
  /\ cameraError' =
       SetState(cameraError,
                "Could not access camera. Please check permissions.")
  /\ lastDetected' = NoCode
  /\ UNCHANGED << route, activeTab, barcode, loading, error, cameraActive,
                  selectedFile, previewUrl, effectCameraActive,
                  quaggaRunning, handlers, pendingInits, srcObject,
                  liveStreams, pendingBlobs, inflight, ocrResult, nextUrl,
                  revoked >>
  /\ UNCHANGED notScanVars

\* getUserMedia resolves with a stream.  With the video element gone,
\* videoRef.current.srcObject = stream throws and the catch block runs; the
\* stream stays live.  A stream already bound to the element is replaced
\* without being stopped.
GetUserMediaResolved ==
  /\ pendingGUM > 0
  /\ pendingGUM' = pendingGUM - 1
  /\ liveStreams' = liveStreams + 1
  /\ IF videoRef
       THEN /\ srcObject' = TRUE
            /\ cameraActive' = TRUE
            /\ cameraError' = "null"
       ELSE /\ cameraError' =
                 SetState(cameraError,
                          "Could not access camera. Please check permissions.")
            /\ UNCHANGED << srcObject, cameraActive >>
  /\ lastDetected' = NoCode
  /\ UNCHANGED << route, activeTab, barcode, loading, error, selectedFile,
                  previewUrl, effectCameraActive, quaggaRunning, handlers,
                  pendingInits, pendingBlobs, inflight, ocrResult, nextUrl,
                  revoked >>
  /\ UNCHANGED notScanVars

\* stopCameraForOCR of the current render (the Stop Camera button of the
\* image tab).
stopCameraForOCR ==
  /\ mounted /\ activeTab = "image" /\ cameraActive /\ ~loading
  /\ StreamToStop(videoRef)
  /\ liveStreams' = liveStreams - 1
  /\ srcObject' = FALSE
  /\ cameraActive' = FALSE
  /\ lastDetected' = NoCode
  /\ UNCHANGED << route, activeTab, barcode, loading, error, cameraError,
                  selectedFile, previewUrl, effectCameraActive,
                  quaggaRunning, handlers, pendingInits, pendingGUM,
                  pendingBlobs, inflight, ocrResult, nextUrl, revoked >>
  /\ UNCHANGED notScanVars

\* captureImage (the Capture button): draws the frame and asks for the
\* blob; toBlob answers later, with null when there is no image.
captureImage(blob) ==
  /\ mounted /\ activeTab = "image" /\ cameraActive /\ ~loading
  /\ videoRef
  /\ blob \in (IF srcObject THEN BOOLEAN ELSE {FALSE})
  /\ Outstanding < MaxAsync
  /\ pendingBlobs' = Append(pendingBlobs, blob)
  /\ lastDetected' = NoCode
  /\ UNCHANGED << route, activeTab, barcode, loading, error, cameraActive,
                  cameraError, selectedFile, previewUrl,
                  effectCameraActive, quaggaRunning, handlers,
                  pendingInits, srcObject, liveStreams, pendingGUM,
                  inflight, ocrResult, nextUrl, revoked >>
  /\ UNCHANGED notScanVars

\* The callback given to canvas.toBlob.
ToBlobCallback ==
  /\ pendingBlobs # <<>>
  /\ pendingBlobs' = Tail(pendingBlobs)
  /\ IF Head(pendingBlobs)
       THEN /\ loading' = SetState(loading, TRUE)
            /\ error' = SetState(error, "null")
            /\ inflight' = Append(inflight, Request("camera", <<>>, FALSE))
       ELSE /\ error' = SetState(error, "Failed to capture image")
            /\ UNCHANGED << loading, inflight >>
  /\ lastDetected' = NoCode
  /\ UNCHANGED << route, activeTab, barcode, cameraActive, cameraError,
                  selectedFile, previewUrl, effectCameraActive,
                  quaggaRunning, handlers, pendingInits, srcObject,
                  liveStreams, pendingGUM, ocrResult, nextUrl, revoked >>
  /\ UNCHANGED notScanVars

\* -------------------------------------------------------------- tabs
\* handleTabChange(event, newValue); Tabs calls onChange for a tab other
\* than the selected one.  It calls stopCamera of the current render, never
\* stopCameraForOCR.  The panel of the tab that is left is removed, and the
\* video element with it.  When previewUrl was set, the effect cleanup of
\* the earlier render runs after the commit.
handleTabChange(newValue) ==
  /\ mounted
  /\ newValue \in Tabs \ {activeTab}
  /\ activeTab' = newValue
  /\ barcode' = <<>>
  /\ error' = "null"
  /\ cameraActive' = FALSE
  /\ selectedFile' = 0
  /\ previewUrl' = 0
  /\ quaggaRunning' =
       IF cameraActive \/ (previewUrl # 0 /\ effectCameraActive)
         THEN FALSE ELSE quaggaRunning
  /\ srcObject' = FALSE
  /\ revoked' = IF previewUrl # 0 THEN revoked \cup {previewUrl} ELSE revoked
  /\ effectCameraActive' = IF previewUrl # 0 THEN FALSE ELSE effectCameraActive
  /\ lastDetected' = NoCode
  /\ UNCHANGED << route, loading, cameraError, handlers, pendingInits,
                  liveStreams, pendingGUM, pendingBlobs, inflight,
                  ocrResult, nextUrl >>
  /\ UNCHANGED notScanVars

\* The close button of the error alert.
DismissError ==
  /\ mounted /\ error # "null"
  /\ error' = "null"
  /\ lastDetected' = NoCode
  /\ UNCHANGED << route, activeTab, barcode, loading, cameraActive,
                  cameraError, selectedFile, previewUrl,
                  effectCameraActive, quaggaRunning, handlers,
                  pendingInits, srcObject, liveStreams, pendingGUM,
                  pendingBlobs, inflight, ocrResult, nextUrl, revoked >>
  /\ UNCHANGED notScanVars

\* ----------------------------------------------------------- unmount
\* The effect cleanup at unmount: stopCamera of the render that registered
\* it, stopCameraForOCR, revoke of that render's previewUrl.  refAlive says
\* whether videoRef.current still holds the element when the cleanup runs.
Unmount(refAlive) ==
  LET stops == StreamToStop(refAlive /\ activeTab = "image")
  IN /\ quaggaRunning' = IF effectCameraActive THEN FALSE ELSE quaggaRunning
     /\ liveStreams' = IF stops THEN liveStreams - 1 ELSE liveStreams
     /\ srcObject' = FALSE
     /\ revoked' = IF previewUrl # 0 THEN revoked \cup {previewUrl}
                                     ELSE revoked

\* React discards the state of the unmounted component.
Discard ==
  /\ activeTab' = "barcode"
  /\ barcode' = <<>>
  /\ loading' = FALSE
  /\ error' = "null"
  /\ cameraActive' = FALSE
  /\ cameraError' = "null"
  /\ selectedFile' = 0
  /\ previewUrl' = 0
  /\ effectCameraActive' = FALSE

\* The user leaves the scan view through the layout's navigation.
LeaveScanPage(refAlive) ==
  /\ mounted
  /\ route' = "other"
  /\ Unmount(refAlive)
  /\ Discard
  /\ lastDetected' = NoCode
  /\ UNCHANGED << handlers, pendingInits, pendingGUM, pendingBlobs,
                  inflight, ocrResult, nextUrl >>
  /\ UNCHANGED notScanVars

\* --------------------------------------------------------- responses
\* ApiService never throws: it answers success or failure, the failure
\* with or without a message.
Outcomes == { "success", "failure", "failure with message" }

\* setError(response.message) without the fallback text.
DefaultMessageMissing(kind) == "null"

DefaultMessage(kind) ==
  IF kind = "lookup" THEN "Product not found" ELSE "Failed to process image"

\* The continuation of handleBarcodeSearch, handleImageUpload or the toBlob
\* callback after its await: navigate on success (and store the OCR
\* result), setError otherwise, setLoading(false) in either case.
Response(i, outcome, refAlive) ==
  /\ i \in 1..Len(inflight)
  /\ LET r == inflight[i]
     IN /\ inflight' = RemoveAt(inflight, i)
        /\ lastDetected' = NoCode
        /\ IF outcome = "success"
             THEN /\ route' = "result"
                  /\ ocrResult' = IF r.kind = "lookup" THEN ocrResult
                                                       ELSE r.kind
                  /\ IF mounted
                       THEN Unmount(refAlive) /\ Discard
                       ELSE UNCHANGED << quaggaRunning, liveStreams,
                                         srcObject, revoked, activeTab,
                                         barcode, loading, error,
                                         cameraActive, cameraError,
                                         selectedFile, previewUrl,
                                         effectCameraActive >>
             ELSE /\ error' =
                       SetState(error,
                                IF outcome = "failure with message"
                                  THEN "server message"
                                  ELSE DefaultMessage(r.kind))
                  /\ loading' = SetState(loading, FALSE)
                  /\ UNCHANGED << route, ocrResult, quaggaRunning,
                                  liveStreams, srcObject, revoked,
                                  activeTab, barcode, cameraActive,
                                  cameraError, selectedFile, previewUrl,
                                  effectCameraActive >>
  /\ UNCHANGED << handlers, pendingInits, pendingGUM, pendingBlobs,
                  nextUrl >>
  /\ UNCHANGED notScanVars

\* ------------------------------------------------------------- system
Next ==
  \/ \E t \in TypedTexts : handleBarcodeChange(t)
  \/ SearchBarcode
  \/ startCamera
  \/ \E i \in 1..MaxAsync : QuaggaInitError(i)
  \/ \E i \in 1..MaxAsync : QuaggaInitOk(i)
  \/ stopCamera
  \/ \E c \in Codes \cup {NoCode} : onDetected(c)
  \/ handleFileChangeRejected
  \/ handleFileChange
  \/ handleImageUpload
  \/ startCameraForOCR
  \/ GetUserMediaRejected
  \/ GetUserMediaResolved
  \/ stopCameraForOCR
  \/ \E b \in BOOLEAN : captureImage(b)
  \/ ToBlobCallback
  \/ \E t \in Tabs : handleTabChange(t)
  \/ DismissError
  \/ \E ref \in BOOLEAN : LeaveScanPage(ref)
  \/ \E i \in 1..MaxAsync, o \in Outcomes, ref \in BOOLEAN :
       Response(i, o, ref)

Spec == Init /\ [][Next]_vars

\* Every ApiService method answers: axios gives up after its timeout and
\* the catch block turns the failure into a response.
SpecLive ==
  Spec /\ WF_vars(\E i \in 1..MaxAsync, o \in Outcomes, ref \in BOOLEAN :
                    Response(i, o, ref))

TypeOK ==
  /\ route \in { "scan", "result", "other" }
  /\ activeTab \in Tabs
  /\ loading \in BOOLEAN /\ cameraActive \in BOOLEAN
  /\ quaggaRunning \in BOOLEAN /\ srcObject \in BOOLEAN
  /\ Len(handlers) <= MaxHandlers
  /\ Outstanding <= MaxAsync
  /\ liveStreams \in 0..MaxStreams /\ pendingGUM \in 0..MaxStreams
  /\ previewUrl \in 0..MaxUrls /\ selectedFile = previewUrl

\* ------------------------------------------------------- ResultPage
\* The ingredient list of ResultPage and the analysis of its ingredients.
\* The page is taken after fetchData has stored the product or the OCR
\* result.

\* Ingredients shown and analysis records received.
MaxIngredients == 2
MaxRecords == 2

IngredientTexts ==
  { <<>>, <<" ">>, <<"a">>, <<"A", "b", " ">>, <<"a", " ", "b">> }
RecordNames ==
  { <<>>, <<" ">>, <<"a">>, <<"a", "b">>, <<"a", " ", "b">> }
Levels == { "safe", "avoid" }

SeqsUpTo(S, n) == UNION { [1..k -> S] : k \in 0..n }

IngredientLists == SeqsUpTo(IngredientTexts, MaxIngredients)
Concerns == { <<>>, <<"c">> }
Records ==
  [name : RecordNames, safety_level : Levels, concerns : Concerns,
   benefits : { <<>> }]
RecordLists == SeqsUpTo(Records, MaxRecords)

\* String.prototype.toLowerCase
toLowerCase(s) ==
  [i \in 1..Len(s) |-> IF s[i] = "A" THEN "a"
                       ELSE IF s[i] = "B" THEN "b" ELSE s[i]]

\* String.prototype.includes
includes(s, t) ==
  \E i \in 0..(Len(s) - Len(t)) : SubSeq(s, i + 1, i + Len(t)) = t

\* String.prototype.split on every single separator: empty pieces are kept.
RECURSIVE split(_, _)
split(s, seps) ==
  IF s = <<>> THEN << <<>> >>
  ELSE IF Head(s) \in seps THEN << <<>> >> \o split(Tail(s), seps)
  ELSE LET r == split(Tail(s), seps)
       IN << <<Head(s)>> \o Head(r) >> \o Tail(r)

\* split(/[\s,;.]+/).filter(Boolean)
NonEmpty(w) == w # <<>>
words(s) == SelectSeq(split(s, {" ", ",", ";", "."}), NonEmpty)

\* The predicate given to find in the product view.
ProductMatch(a, ingredientText) ==
  /\ a.name # <<>>
  /\ LET n == toLowerCase(a.name)
         t == toLowerCase(ingredientText)
         ws == split(n, {" "})
     IN \/ n = t
        \/ includes(t, n)
        \/ includes(n, t)
        \/ \E k \in 1..Len(ws) : includes(t, ws[k])

\* The OCR predicate without its test for empty names.
OcrMatchUnguarded(a, ingredientText) ==
  /\ a.name # <<>>
  /\ LET analysisName == Trim(toLowerCase(a.name))
         ingredientLower == Trim(toLowerCase(ingredientText))
         analysisWords == words(analysisName)
         ingredientWords == words(ingredientLower)
     IN \/ analysisName = ingredientLower
        \/ includes(ingredientLower, analysisName)
        \/ includes(analysisName, ingredientLower)
        \/ \E i \in 1..Len(analysisWords), j \in 1..Len(ingredientWords) :
             \/ includes(ingredientWords[j], analysisWords[i])
             \/ includes(analysisWords[i], ingredientWords[j])

\* The predicate given to find in the OCR view.
OcrMatch(a, ingredientText) ==
  /\ a.name # <<>>
  /\ LET analysisName == Trim(toLowerCase(a.name))
         ingredientLower == Trim(toLowerCase(ingredientText))
         analysisWords == words(analysisName)
         ingredientWords == words(ingredientLower)
     IN /\ analysisName # <<>> /\ ingredientLower # <<>>
        /\ \/ analysisName = ingredientLower
           \/ includes(ingredientLower, analysisName)
           \/ includes(analysisName, ingredientLower)
           \/ \E i \in 1..Len(analysisWords), j \in 1..Len(ingredientWords) :
                \/ includes(ingredientWords[j], analysisWords[i])
                \/ includes(analysisWords[i], ingredientWords[j])

Match(vw, a, ingredientText) ==
  IF vw = "product" THEN ProductMatch(a, ingredientText)
                    ELSE OcrMatch(a, ingredientText)

\* Array.prototype.find: the index of the first record that satisfies the
\* predicate, 0 for undefined.
RECURSIVE find(_, _, _, _)
find(vw, items, ingredientText, j) ==
  IF j > Len(items) THEN 0
  ELSE IF Match(vw, items[j], ingredientText) THEN j
  ELSE find(vw, items, ingredientText, j + 1)

\* A lookup that depends on more than its inputs: none while the details
\* are open.
analysisOfUnopened(vw, results, ingredientText) ==
  IF results.null \/ analysisModalOpen THEN 0
  ELSE find(vw, results.items, ingredientText, 1)

\* const analysis = analysisResults?.find(...)
analysisOf(vw, results, ingredientText) ==
  IF results.null THEN 0 ELSE find(vw, results.items, ingredientText, 1)

\* secondary={analysis?.safety_level ? `Safety: ${...}` : 'Not analyzed'}
SafetyText(level) ==
  IF level = "safe" THEN "Safety: safe"
  ELSE IF level = "caution" THEN "Safety: caution"
  ELSE IF level = "avoid" THEN "Safety: avoid"
  ELSE "Safety: unknown"

\* The ListItem rendered for an ingredient: its text, the record found for
\* it (0 when none), the secondary text and the disabled prop of the
\* details button.
ListItem(vw, results, ingredientText) ==
  LET analysis == analysisOf(vw, results, ingredientText)
  IN [primary |-> ingredientText,
      analysis |-> analysis,
      secondary |-> IF analysis # 0
                      THEN SafetyText(results.items[analysis].safety_level)
                      ELSE "Not analyzed",
      disabled |-> analysis = 0]

\* A list that leaves out the ingredients without a record.
RECURSIVE RenderMatchedItems(_, _, _)
RenderMatchedItems(vw, results, ings) ==
  IF ings = <<>> THEN <<>>
  ELSE (IF analysisOf(vw, results, Head(ings)) = 0 THEN <<>>
        ELSE << ListItem(vw, results, Head(ings)) >>)
         \o RenderMatchedItems(vw, results, Tail(ings))

\* ingredients.map(...)
RECURSIVE RenderItems(_, _, _)
RenderItems(vw, results, ings) ==
  IF ings = <<>> THEN <<>>
  ELSE << ListItem(vw, results, Head(ings)) >>
         \o RenderItems(vw, results, Tail(ings))

\* analysisResults.filter(i => i.safety_level === level).length
CountLevel(items, level) ==
  Cardinality({ j \in 1..Len(items) : items[j].safety_level = level })

\* The badges of the analysis summary: the product view shows it once
\* analysisResults is set.
RenderBadges(vw, results) ==
  IF vw = "product" /\ ~results.null
    THEN [shown |-> TRUE,
          safe |-> CountLevel(results.items, "safe"),
          caution |-> CountLevel(results.items, "caution"),
          avoid |-> CountLevel(results.items, "avoid")]
    ELSE [shown |-> FALSE, safe |-> 0, caution |-> 0, avoid |-> 0]

\* analysisResults.filter(item => item.concerns.length > 0 ||
\* item.benefits.length > 0)
HasDetails(item) == Len(item.concerns) > 0 \/ Len(item.benefits) > 0

\* The accordions of the Detailed Analysis, shown with the summary.
RenderDetails(vw, results) ==
  IF vw = "product" /\ ~results.null
    THEN SelectSeq(results.items, HasDetails)
    ELSE <<>>

\* The scan view has navigated to the result page and holds nothing.
ScanViewLeft ==
  /\ activeTab = "barcode" /\ barcode = <<>> /\ loading = FALSE
  /\ error = "null" /\ cameraActive = FALSE /\ cameraError = "null"
  /\ selectedFile = 0 /\ previewUrl = 0 /\ effectCameraActive = FALSE
  /\ quaggaRunning = FALSE /\ handlers = <<>> /\ pendingInits = <<>>
  /\ srcObject = FALSE /\ liveStreams = 0 /\ pendingGUM = 0
  /\ pendingBlobs = <<>> /\ inflight = <<>>
  /\ nextUrl = 0 /\ revoked = {} /\ lastDetected = NoCode

ScanPageLeft == route = "result" /\ ScanViewLeft /\ ocrResult = "none"

ResultInit ==
  /\ ScanPageLeft
  /\ HistoryPageAbsent
  /\ FetchAbsent
  /\ ApiAbsent
  /\ view \in { "product", "ocr" }
  /\ ingredients \in IngredientLists
  /\ analyzingIngredients = FALSE
  /\ analysisResults = NullResults
  /\ analysisError = "null"
  /\ selectedIngredient = 0
  /\ analysisModalOpen = FALSE
  /\ listItems = RenderItems(view, NullResults, ingredients)
  /\ badges = RenderBadges(view, NullResults)
  /\ detailItems = RenderDetails(view, NullResults)

\* The page is rendered again after every change of its state.
Render ==
  /\ listItems' = RenderItems(view', analysisResults', ingredients')
  /\ badges' = RenderBadges(view', analysisResults')
  /\ detailItems' = RenderDetails(view', analysisResults')

\* The Analyze Ingredients button, shown while
\* !analyzingIngredients && !analysisResults; up to the await.
handleAnalyzeIngredients ==
  /\ ~analyzingIngredients /\ analysisResults.null
  /\ IF ingredients = <<>>
       THEN /\ analysisError' = "No ingredients to analyze"
            /\ UNCHANGED analyzingIngredients
       ELSE /\ analyzingIngredients' = TRUE
            /\ analysisError' = "null"
  /\ UNCHANGED << view, ingredients, analysisResults, selectedIngredient,
                  analysisModalOpen >>
  /\ Render
  /\ UNCHANGED notResultVars

\* handleAnalyzeIngredients after the await, with the records the service
\* answered.
AnalysisSucceeded(items) ==
  /\ analyzingIngredients
  /\ analysisResults' = [null |-> FALSE, items |-> items]
  /\ analyzingIngredients' = FALSE
  /\ UNCHANGED << view, ingredients, analysisError, selectedIngredient,
                  analysisModalOpen >>
  /\ Render
  /\ UNCHANGED notResultVars

AnalysisFailed ==
  /\ analyzingIngredients
  /\ analysisError' = "Failed to analyze ingredients"
  /\ analyzingIngredients' = FALSE
  /\ UNCHANGED << view, ingredients, analysisResults, selectedIngredient,
                  analysisModalOpen >>
  /\ Render
  /\ UNCHANGED notResultVars

\* The details button of the i-th list item.
handleOpenAnalysisDetails(i) ==
  /\ i \in 1..Len(listItems)
  /\ ~listItems[i].disabled
  /\ selectedIngredient' = listItems[i].analysis
  /\ analysisModalOpen' = TRUE
  /\ UNCHANGED << view, ingredients, analyzingIngredients, analysisResults,
                  analysisError >>
  /\ Render
  /\ UNCHANGED notResultVars

ResultNext ==
  \/ handleAnalyzeIngredients
  \/ \E items \in RecordLists : AnalysisSucceeded(items)
  \/ AnalysisFailed
  \/ \E i \in 1..MaxIngredients : handleOpenAnalysisDetails(i)

SpecResult == ResultInit /\ [][ResultNext]_vars

\* ------------------------------------------------------ HistoryPage
\* Entries stored when the page is opened.
MaxEntries == 2

\* A ScanResult: type, timestamp and data (data names the scan).
ScanTypes == { "barcode", "ocr" }
Timestamps == { 1, 2 }
Entries == [type : ScanTypes, timestamp : Timestamps, data : { "p", "q" }]

\* The arrays a store can hold: every entry is a scan of its own.
StoredLists ==
  { l \in SeqsUpTo(Entries, MaxEntries) :
      \A i, j \in 1..Len(l) : i # j => l[i].data # l[j].data }

\* generateMockHistory's array: two barcode scans and an OCR scan, one hour,
\* two hours and one day old.
mockHistory ==
  << [type |-> "barcode", timestamp |-> 3, data |-> "p"],
     [type |-> "ocr", timestamp |-> 2, data |-> "q"],
     [type |-> "barcode", timestamp |-> 1, data |-> "r"] >>

\* The effect of [activeFilter, history].
Filtered(filter, items) ==
  IF filter = "all" THEN items
  ELSE LET OfType(item) == item.type = filter
       IN SelectSeq(items, OfType)

\* history.filter(item => !(item.timestamp === selectedItem.timestamp &&
\* item.type === selectedItem.type))
WithoutSelected(items, selected) ==
  LET Kept(item) ==
        ~(item.timestamp = selected.timestamp /\ item.type = selected.type)
  IN SelectSeq(items, Kept)

\* HistoryPage after its mount effect has read localStorage.
HistoryInit ==
  /\ ScanPageLeft
  /\ ResultPageAbsent
  /\ FetchAbsent
  /\ ApiAbsent
  /\ \E l \in StoredLists :
       /\ scanHistory \in { [present |-> TRUE, items |-> l] }
                            \cup (IF l = <<>> THEN { NoHistory } ELSE {})
       /\ history = l
       /\ filteredHistory = l
  /\ historyMounted = TRUE
  /\ activeFilter = "all"
  /\ deleteDialogOpen = FALSE
  /\ clearAllDialogOpen = FALSE
  /\ selectedItem = <<>>
  /\ historyEvent = "none"

\* No dialog covers the page.
PageUsable == historyMounted /\ ~deleteDialogOpen /\ ~clearAllDialogOpen

handleFilterChange(newValue) ==
  /\ PageUsable
  /\ newValue \in { "all", "barcode", "ocr" } \ { activeFilter }
  /\ activeFilter' = newValue
  /\ filteredHistory' = Filtered(newValue, history)
  /\ historyEvent' = "handleFilterChange"
  /\ UNCHANGED << scanHistory, historyMounted, history, deleteDialogOpen,
                  clearAllDialogOpen, selectedItem >>
  /\ UNCHANGED notHistoryVars

\* The delete button of the i-th item shown.
deleteHistoryItem(i) ==
  /\ PageUsable
  /\ i \in 1..Len(filteredHistory)
  /\ selectedItem' = << filteredHistory[i] >>
  /\ deleteDialogOpen' = TRUE
  /\ historyEvent' = "deleteHistoryItem"
  /\ UNCHANGED << scanHistory, historyMounted, history, filteredHistory,
                  activeFilter, clearAllDialogOpen >>
  /\ UNCHANGED notHistoryVars

\* Cancel, or onClose, of the delete dialog.
cancelDelete ==
  /\ historyMounted /\ deleteDialogOpen
  /\ deleteDialogOpen' = FALSE
  /\ historyEvent' = "cancelDelete"
  /\ UNCHANGED << scanHistory, historyMounted, history, filteredHistory,
                  activeFilter, clearAllDialogOpen, selectedItem >>
  /\ UNCHANGED notHistoryVars

confirmDelete ==
  /\ historyMounted /\ deleteDialogOpen
  /\ selectedItem # <<>>
  /\ LET newHistory == WithoutSelected(history, selectedItem[1])
     IN /\ history' = newHistory
        /\ scanHistory' = [present |-> TRUE, items |-> newHistory]
        /\ filteredHistory' = Filtered(activeFilter, newHistory)
  /\ deleteDialogOpen' = FALSE
  /\ historyEvent' = "confirmDelete"
  /\ UNCHANGED << historyMounted, activeFilter, clearAllDialogOpen,
                  selectedItem >>
  /\ UNCHANGED notHistoryVars

\* The Clear All button: disabled={history.length === 0}.
clearAllHistory ==
  /\ PageUsable
  /\ history # <<>>
  /\ clearAllDialogOpen' = TRUE
  /\ historyEvent' = "clearAllHistory"
  /\ UNCHANGED << scanHistory, historyMounted, history, filteredHistory,
                  activeFilter, deleteDialogOpen, selectedItem >>
  /\ UNCHANGED notHistoryVars

cancelClearAll ==
  /\ historyMounted /\ clearAllDialogOpen
  /\ clearAllDialogOpen' = FALSE
  /\ historyEvent' = "cancelClearAll"
  /\ UNCHANGED << scanHistory, historyMounted, history, filteredHistory,
                  activeFilter, deleteDialogOpen, selectedItem >>
  /\ UNCHANGED notHistoryVars

confirmClearAll ==
  /\ historyMounted /\ clearAllDialogOpen
  /\ history' = <<>>
  /\ scanHistory' = NoHistory
  /\ filteredHistory' = <<>>
  /\ clearAllDialogOpen' = FALSE
  /\ historyEvent' = "confirmClearAll"
  /\ UNCHANGED << historyMounted, activeFilter, deleteDialogOpen,
                  selectedItem >>
  /\ UNCHANGED notHistoryVars

\* The Generate Demo Data button, shown while history.length === 0.
generateMockHistory ==
  /\ PageUsable
  /\ history = <<>>
  /\ history' = mockHistory
  /\ scanHistory' = [present |-> TRUE, items |-> mockHistory]
  /\ filteredHistory' = Filtered(activeFilter, mockHistory)
  /\ historyEvent' = "generateMockHistory"
  /\ UNCHANGED << historyMounted, activeFilter, deleteDialogOpen,
                  clearAllDialogOpen, selectedItem >>
  /\ UNCHANGED notHistoryVars

\* The view button of the i-th item shown: the page is left for the result
\* page and its state is discarded.
viewHistoryItem(i) ==
  /\ PageUsable
  /\ i \in 1..Len(filteredHistory)
  /\ historyMounted' = FALSE
  /\ history' = <<>>
  /\ filteredHistory' = <<>>
  /\ activeFilter' = "all"
  /\ selectedItem' = <<>>
  /\ historyEvent' = "viewHistoryItem"
  /\ UNCHANGED << scanHistory, deleteDialogOpen, clearAllDialogOpen >>
  /\ UNCHANGED notHistoryVars

HistoryNext ==
  \/ \E f \in { "all", "barcode", "ocr" } : handleFilterChange(f)
  \/ \E i \in 1..(MaxEntries + 1) : deleteHistoryItem(i)
  \/ cancelDelete
  \/ confirmDelete
  \/ clearAllHistory
  \/ cancelClearAll
  \/ confirmClearAll
  \/ generateMockHistory
  \/ \E i \in 1..(MaxEntries + 1) : viewHistoryItem(i)

SpecHistory == HistoryInit /\ [][HistoryNext]_vars

\* ------------------------------------------------------- ApiService
\* The operations of ApiService as functions of what the server does with
\* the request. Fields of a response body are JavaScript values: a flag
\* is true, another truthy value, false or missing, a text is missing,
\* empty or not.
Flags == { "true", "1", "false", "undefined" }
MessageTexts == { "undefined", "", "msg" }

Truthy(v) == v \notin { "false", "undefined", "" }

\* a || b
Or(a, b) == IF Truthy(a) THEN a ELSE b

\* The server answers with a status and a body: an object with the fields
\* success, error and message, or null (body FALSE). 204 carries no
\* content: axios reads every field of it as undefined.
ServerReplies ==
  { NoReply }
    \cup [status : { "200" }, body : { TRUE }, success : Flags,
          error : MessageTexts, message : MessageTexts]
    \cup [status : { "200", "500" }, body : { FALSE },
          success : { "undefined" }, error : { "undefined" },
          message : { "undefined" }]
    \cup [status : { "204" }, body : { TRUE }, success : { "undefined" },
          error : { "undefined" }, message : { "undefined" }]
    \cup [status : { "500" }, body : { TRUE },
          success : { "false", "undefined" }, error : MessageTexts,
          message : { "undefined" }]

\* axios resolves the request for a status of 2xx and rejects it otherwise.
Resolved(reply) == reply.status \in { "200", "204" }

\* The try block runs to its return: the request resolved and reading
\* response.data.success did not throw a TypeError on a null body.
Returns(reply) == Resolved(reply) /\ reply.body

\* error.response?.data?.error: a TypeError has no response.
ResponseError(reply) ==
  IF reply.status = "500" /\ reply.body THEN reply.error ELSE "undefined"

\* The value of the catch block.
Caught(reply, fallback) ==
  [threw |-> FALSE, data |-> "default", success |-> "false",
   message |-> Or(ResponseError(reply), fallback)]

\* The value of the try block.
Returned(reply, data, message) ==
  [threw |-> FALSE, data |-> data, success |-> Or(reply.success, "false"),
   message |-> message]

lookupBarcode(reply) ==
  IF Returns(reply) THEN Returned(reply, "body", reply.error)
                    ELSE Caught(reply, "Failed to lookup barcode")

processImage(reply) ==
  IF Returns(reply) THEN Returned(reply, "body", reply.error)
                    ELSE Caught(reply, "Failed to process image")

processCameraImage(reply) ==
  IF Returns(reply) THEN Returned(reply, "body", reply.error)
                    ELSE Caught(reply, "Failed to process camera image")

addManualProduct(reply) ==
  IF Returns(reply)
    THEN Returned(reply, "product", Or(reply.message, reply.error))
    ELSE Caught(reply, "Failed to add product")

analyzeIngredients(reply) ==
  IF Returns(reply) THEN Returned(reply, "body", reply.error)
                    ELSE Caught(reply, "Failed to analyze ingredients")

\* response.status === 200, false in the catch block.
healthCheck(reply) ==
  [threw |-> FALSE, data |-> "none",
   success |-> IF reply.status = "200" THEN "true" ELSE "false",
   message |-> "undefined"]

ApiInit ==
  /\ ScanPageLeft
  /\ ResultPageAbsent
  /\ HistoryPageAbsent
  /\ FetchAbsent
  /\ ApiAbsent

CallLookupBarcode(reply) ==
  /\ apiCall' = [op |-> "lookupBarcode", reply |-> reply]
  /\ apiResult' = lookupBarcode(reply)
  /\ UNCHANGED notApiVars

CallProcessImage(reply) ==
  /\ apiCall' = [op |-> "processImage", reply |-> reply]
  /\ apiResult' = processImage(reply)
  /\ UNCHANGED notApiVars

CallProcessCameraImage(reply) ==
  /\ apiCall' = [op |-> "processCameraImage", reply |-> reply]
  /\ apiResult' = processCameraImage(reply)
  /\ UNCHANGED notApiVars

CallAddManualProduct(reply) ==
  /\ apiCall' = [op |-> "addManualProduct", reply |-> reply]
  /\ apiResult' = addManualProduct(reply)
  /\ UNCHANGED notApiVars

CallAnalyzeIngredients(reply) ==
  /\ apiCall' = [op |-> "analyzeIngredients", reply |-> reply]
  /\ apiResult' = analyzeIngredients(reply)
  /\ UNCHANGED notApiVars

CallHealthCheck(reply) ==
  /\ apiCall' = [op |-> "healthCheck", reply |-> reply]
  /\ apiResult' = healthCheck(reply)
  /\ UNCHANGED notApiVars

ApiNext ==
  \/ \E reply \in ServerReplies : CallLookupBarcode(reply)
  \/ \E reply \in ServerReplies : CallProcessImage(reply)
  \/ \E reply \in ServerReplies : CallProcessCameraImage(reply)
  \/ \E reply \in ServerReplies : CallAddManualProduct(reply)
  \/ \E reply \in ServerReplies : CallAnalyzeIngredients(reply)
  \/ \E reply \in ServerReplies : CallHealthCheck(reply)

SpecApi == ApiInit /\ [][ApiNext]_vars

\* ------------------------------------------------ ResultPage, fetchData
\* The effect of ResultPage that loads what the query parameters name.
\* The router keeps the component mounted while only the parameters of
\* /result change, and the effect runs again for the new ones.
Params ==
  { [type |-> "barcode", key |-> "x"], [type |-> "barcode", key |-> "y"],
    [type |-> "ocr", key |-> "i"], [type |-> "", key |-> ""] }

ResultShown == route = "result"

\* The state of a component that is not mounted.
ResultDiscarded ==
  /\ params' = NoParams
  /\ effectParams' = NoParams
  /\ resultLoading' = FALSE
  /\ resultError' = "null"
  /\ product' = "null"
  /\ ocrShown' = "null"

\* ResultPage after its first render, before its effects ran.
FetchInit ==
  /\ route = "result"
  /\ ScanViewLeft
  /\ ocrResult \in { "none", "ocr", "camera" }
  /\ ResultPageAbsent
  /\ HistoryPageAbsent
  /\ ApiAbsent
  /\ params \in Params
  /\ effectParams = NoParams
  /\ resultLoading = TRUE
  /\ resultError = "null"
  /\ product = "null"
  /\ ocrShown = "null"
  /\ fetches = <<>>
  /\ timers = <<>>

\* A link to /result with other parameters is followed once the effect of
\* the last render has run.
ParamsChange(p) ==
  /\ ResultShown
  /\ effectParams = params
  /\ p # params
  /\ Len(fetches) < MaxAsync
  /\ params' = p
  /\ UNCHANGED << route, ocrResult, effectParams, resultLoading,
                  resultError, product, ocrShown, fetches, timers >>
  /\ UNCHANGED notFetchVars

\* The effect, up to its first await or to its end.
fetchData ==
  /\ ResultShown
  /\ effectParams # params
  /\ effectParams' = params
  /\ IF params.type = "barcode" /\ params.key # ""
       THEN /\ fetches' = Append(fetches, params)
            /\ resultLoading' = TRUE
            /\ resultError' = "null"
            /\ UNCHANGED << ocrShown, ocrResult >>
       ELSE IF params.type = "ocr" /\ params.key # ""
         THEN IF ocrResult # "none"
           THEN /\ ocrShown' = "stored"
                /\ ocrResult' = "none"
                /\ resultLoading' = FALSE
                /\ resultError' = "null"
                /\ UNCHANGED fetches
           ELSE /\ fetches' = Append(fetches, params)
                /\ resultLoading' = TRUE
                /\ resultError' = "null"
                /\ UNCHANGED << ocrShown, ocrResult >>
         ELSE /\ resultError' = "Invalid result type or missing parameters"
              /\ resultLoading' = FALSE
              /\ UNCHANGED << fetches, ocrShown, ocrResult >>
  /\ UNCHANGED << route, params, product, timers >>
  /\ UNCHANGED notFetchVars

\* ApiService.lookupBarcode answers and the effect goes on after its
\* await: setProduct, or setError and the redirect timer, then
\* setLoading(false). Setting the state of an unmounted component does
\* nothing.
LookupResponse(i, reply) ==
  /\ i \in 1..Len(fetches)
  /\ fetches[i].type = "barcode"
  /\ LET response == lookupBarcode(reply)
         found == Truthy(response.success) /\ response.data = "body"
     IN /\ ~found => Len(timers) < MaxAsync
        /\ fetches' = RemoveAt(fetches, i)
        /\ timers' = IF found THEN timers ELSE Append(timers, fetches[i])
        /\ IF ResultShown
             THEN /\ resultLoading' = FALSE
                  /\ product' = IF found THEN fetches[i].key ELSE product
                  /\ resultError' =
                       IF found THEN resultError
                                ELSE Or(response.message, "Product not found")
             ELSE UNCHANGED << resultLoading, product, resultError >>
  /\ UNCHANGED << route, ocrResult, params, effectParams, ocrShown >>
  /\ UNCHANGED notFetchVars

\* fetch of /api/ocr/result answers: setOcrResult for an ok response
\* whose body has a truthy success, setError of the inner catch
\* otherwise, then setLoading(false).
OcrResultResponse(i, reply) ==
  /\ i \in 1..Len(fetches)
  /\ fetches[i].type = "ocr"
  /\ fetches' = RemoveAt(fetches, i)
  /\ IF ResultShown
       THEN /\ resultLoading' = FALSE
            /\ IF reply.status = "200" /\ reply.body /\ Truthy(reply.success)
                 THEN /\ ocrShown' = fetches[i].key
                      /\ UNCHANGED resultError
                 ELSE /\ resultError' =
                           "Failed to fetch OCR results. Please try again."
                      /\ UNCHANGED ocrShown
       ELSE UNCHANGED << resultLoading, ocrShown, resultError >>
  /\ UNCHANGED << route, ocrResult, params, effectParams, product, timers >>
  /\ UNCHANGED notFetchVars

\* The timer of a failed lookup fires after its 3 seconds:
\* navigate(AppRoute.SCAN), whatever the router shows by now.
RedirectTimerFires(i) ==
  /\ i \in 1..Len(timers)
  /\ timers' = RemoveAt(timers, i)
  /\ route' = "scan"
  /\ IF ResultShown
       THEN ResultDiscarded
       ELSE UNCHANGED << params, effectParams, resultLoading, resultError,
                         product, ocrShown >>
  /\ UNCHANGED << ocrResult, fetches >>
  /\ UNCHANGED notFetchVars

\* The user goes to another page.
LeaveResultPage ==
  /\ ResultShown
  /\ route' = "other"
  /\ ResultDiscarded
  /\ UNCHANGED << ocrResult, fetches, timers >>
  /\ UNCHANGED notFetchVars

FetchNext ==
  \/ \E p \in Params : ParamsChange(p)
  \/ fetchData
  \/ \E i \in 1..MaxAsync, reply \in ServerReplies : LookupResponse(i, reply)
  \/ \E i \in 1..MaxAsync, reply \in ServerReplies :
       OcrResultResponse(i, reply)
  \/ \E i \in 1..MaxAsync : RedirectTimerFires(i)
  \/ LeaveResultPage

SpecFetch == FetchInit /\ [][FetchNext]_vars

\* ------------------------------------------------------------ claims
\* Camera handles that are live: the running decoder and every media
\* stream whose tracks were not stopped.
Handles == (IF quaggaRunning THEN 1 ELSE 0) + liveStreams

\* C1: at most one camera handle is live in every reachable state; the
\* barcode scanner and an OCR media stream are never live together.
AtMostOneCameraHandle == Handles <= 1

\* C2: once the scan view has been left and no acquisition is pending, every
\* handle that was acquired has been released: none stays live.
EveryHandleReleasedAfterLeaving ==
  (~mounted /\ pendingInits = <<>> /\ pendingGUM = 0) => Handles = 0

\* C3: a tab change is a hard reset: after it no camera handle is live and
\* the barcode text, the selected file, the preview URL and the error are
\* cleared.
TabChangeIsHardReset ==
  [][(activeTab' # activeTab /\ mounted')
       => /\ ~quaggaRunning' /\ liveStreams' = 0
          /\ barcode' = <<>> /\ selectedFile' = 0 /\ previewUrl' = 0
          /\ error' = "null"]_vars

\* C4: unmounting the scan view while the barcode scanner or the OCR stream
\* is live releases it.
UnmountReleasesCamera ==
  [][(mounted /\ ~mounted')
       => /\ ~quaggaRunning'
          /\ (srcObject => liveStreams' < liveStreams)]_vars

\* C5: when a decode is delivered to several handleBarcodeDetected
\* callbacks, only the first invocation acts: the state after the event is
\* the state the first invocation alone produces, and no later invocation
\* issues a request.
OnlyFirstDecodeActedUpon ==
  [][(lastDetected' \in Codes /\ handlers # <<>>)
       => LET st == handleBarcodeDetected(Head(handlers), lastDetected',
                                          HandlerState)
          IN /\ inflight' = st.inflight
             /\ mounted => /\ barcode' = st.barcode
                           /\ loading' = st.loading
                           /\ error' = st.error]_vars

\* C6: a decode of code c issues exactly one lookupBarcode request, with
\* argument c, and the view is loading.
DecodedCodeIsLookedUp ==
  [][(lastDetected' \in Codes /\ mounted)
       => /\ loading'
          /\ inflight' =
               Append(inflight, Request("lookup", lastDetected', TRUE))]_vars

\* C7: while a lookup issued by a decode is in flight and the view is
\* loading, the barcode scanner is not running.
NoScanningWhileDecodeLookupInFlight ==
  \A i \in 1..Len(inflight) :
    (inflight[i].decoded /\ loading) => ~quaggaRunning

\* C8: while a processCameraImage request is in flight, no OCR media stream
\* is live.
StreamReleasedBeforeCameraSubmit ==
  \A i \in 1..Len(inflight) : inflight[i].kind = "camera" => liveStreams = 0

\* C9: the scan view never has more than one request in flight.
AtMostOneRequestInFlight == Len(inflight) <= 1

\* C10: the response to a request issued on a tab the user has since left
\* (a manual lookup belongs to the barcode tab, an upload to the image tab)
\* stores no OCR result, does not navigate, and changes neither error nor
\* loading.
IssuedOn(r) ==
  IF r.kind = "lookup" /\ ~r.decoded THEN {"barcode"}
  ELSE IF r.kind = "ocr" THEN {"image"}
  ELSE Tabs

StaleResponseIgnored ==
  [][\A i \in 1..Len(inflight) :
       (/\ inflight' = RemoveAt(inflight, i)
        /\ mounted
        /\ activeTab \notin IssuedOn(inflight[i]))
         => /\ ocrResult' = ocrResult /\ route' = route
            /\ error' = error /\ loading' = loading]_vars

\* C11: every submission leaves the submitting state: a loading view
\* eventually stops loading, and the answer to a request of the mounted
\* view either navigates to the result page or leaves the view on the scan
\* page, not loading, with a non-null error and with the tab, the barcode
\* and the selected file kept, so that the same action can be retried.
SubmissionSettles ==
  /\ [][(mounted /\ Len(inflight') < Len(inflight))
         => \/ route' = "result"
            \/ /\ route' = "scan" /\ ~loading' /\ error' # "null"
               /\ UNCHANGED << activeTab, barcode, selectedFile >>]_vars
  /\ (loading ~> ~loading)

\* A lookup has failed without a server message: the view shows the error
\* and can submit again.
FailedLookupShown ==
  /\ mounted /\ ~loading /\ error = "Product not found"
  /\ inflight = <<>> /\ Trim(barcode) # <<>>

\* C12: when a camera acquisition of the mounted view fails (the Quagga.init
\* callback gets an error, or getUserMedia rejects), cameraError is non-null
\* afterwards, cameraActive is false, no camera handle is held, the tab is
\* the one it was and no new acquisition has been started.
AcquisitionFailureLeavesIdle ==
  [][(/\ mounted
      /\ \/ Len(pendingInits') < Len(pendingInits) /\ handlers' = handlers
         \/ pendingGUM' < pendingGUM /\ liveStreams' = liveStreams)
       => /\ cameraError' # "null"
          /\ ~cameraActive'
          /\ Handles' = 0
          /\ activeTab' = activeTab
          /\ Len(pendingInits') + pendingGUM'
               = Len(pendingInits) + pendingGUM - 1]_vars

\* C13: release is idempotent: while no camera handle is held, a call of
\* stopCamera does not run its body (Quagga.stop(), setCameraActive(false)).
\* handleTabChange calls stopCamera of the current render; the effect
\* cleanup (run when previewUrl changes, and at unmount) calls stopCamera of
\* the render that registered it.
ReleaseIsIdempotent ==
  [][(mounted /\ Handles = 0)
       => /\ (mounted' /\ activeTab' # activeTab) => ~cameraActive
          /\ (\/ nextUrl' # nextUrl
              \/ mounted' /\ activeTab' # activeTab /\ previewUrl # 0
              \/ ~mounted') => ~effectCameraActive]_vars

\* The analysis has been received and the list shows its records.
Analysed == view # "none" /\ ~analysisResults.null

\* The record shown with the i-th ingredient (only when there is one).
Bound(i) == analysisResults.items[listItems[i].analysis]

\* A name as the tiers compare it: lowercased and trimmed.
Normalized(s) == Trim(toLowerCase(s))

\* C14: the list has exactly one item per ingredient, in the order of the
\* ingredients: item i shows ingredient i, also when a text occurs twice.
OneItemPerIngredient ==
  /\ Len(listItems) = Len(ingredients)
  /\ \A i \in 1..Len(ingredients) : listItems[i].primary = ingredients[i]

\* The same text occurs twice; the first is shown with a record.
DuplicateIngredientsShown ==
  /\ Analysed /\ Len(ingredients) = 2
  /\ ingredients[1] = ingredients[2]
  /\ Len(listItems) = 2 /\ listItems[1].analysis # 0

\* C15: no analysis record is bound to more than one ingredient of the
\* list.
NoRecordBoundTwice ==
  \A i, j \in 1..Len(listItems) :
    (i # j /\ listItems[i].analysis # 0)
      => listItems[i].analysis # listItems[j].analysis

\* C16: tier 1 is never skipped: when the normalized text of an ingredient
\* equals the normalized name of some record, the ingredient is bound to a
\* record of that name.
ExactMatchWins ==
  Analysed =>
    \A i \in 1..Len(listItems) :
      LET t == Normalized(ingredients[i])
          items == analysisResults.items
      IN (t # <<>> /\ \E j \in 1..Len(items) : Normalized(items[j].name) = t)
           => /\ listItems[i].analysis # 0
              /\ Normalized(Bound(i).name) = t

\* C17: the reconciliation is deterministic: a render with the same
\* ingredients and the same analysis records shows the same list.
SameInputsSameList ==
  [][(/\ view' = view /\ ingredients' = ingredients
      /\ analysisResults' = analysisResults)
       => listItems' = listItems]_vars

\* The details of a record were opened after the analysis: the list was
\* rendered again with the inputs it had.
RenderedAgain ==
  /\ Analysed /\ analysisModalOpen /\ selectedIngredient # 0
  /\ Len(listItems) = 2 /\ listItems[2].analysis = selectedIngredient

\* C18: an ingredient with no exact match and with records that qualify by
\* substring is bound to the qualifying record of the longest name, the
\* first of them in list order.
SubstringQualifies(a, t) ==
  /\ Normalized(a.name) # <<>>
  /\ \/ includes(t, Normalized(a.name))
     \/ includes(Normalized(a.name), t)

LongestSubstringWins ==
  Analysed =>
    \A i \in 1..Len(listItems) :
      LET t == Normalized(ingredients[i])
          items == analysisResults.items
          S == { j \in 1..Len(items) : SubstringQualifies(items[j], t) }
      IN (/\ t # <<>> /\ S # {}
          /\ \A j \in 1..Len(items) : Normalized(items[j].name) # t)
           => /\ listItems[i].analysis \in S
              /\ \A k \in S :
                   \/ Len(Normalized(items[k].name))
                        < Len(Normalized(Bound(i).name))
                   \/ /\ Len(Normalized(items[k].name))
                          = Len(Normalized(Bound(i).name))
                      /\ listItems[i].analysis <= k

\* C19: in the OCR view the reconciliation never fails: an item without a
\* record shows "Not analyzed" with the details button disabled, an item
\* with a record shows that record's level with the button enabled, and an
\* empty or whitespace-only ingredient text or record name is never matched.
UnmatchedShownNotAnalyzed ==
  view = "ocr" =>
    \A i \in 1..Len(listItems) :
      /\ listItems[i].analysis \in 0..Len(analysisResults.items)
      /\ listItems[i].analysis = 0
           => listItems[i].secondary = "Not analyzed" /\ listItems[i].disabled
      /\ listItems[i].analysis # 0
           => /\ listItems[i].secondary = SafetyText(Bound(i).safety_level)
              /\ ~listItems[i].disabled
              /\ Trim(ingredients[i]) # <<>>
              /\ Trim(Bound(i).name) # <<>>

\* A whitespace-only ingredient stays without a record, beside an
\* ingredient that has one, although a record of whitespace-only name was
\* received.
BlankBesideMatched ==
  /\ view = "ocr" /\ Analysed /\ Len(listItems) = 2
  /\ ingredients[1] = <<" ">> /\ listItems[1].analysis = 0
  /\ listItems[2].analysis # 0
  /\ \E j \in 1..Len(analysisResults.items) :
       analysisResults.items[j].name = <<" ">>

\* C20: each badge of the summary is the number of ingredients whose bound
\* record has that safety level; ingredients without a record count
\* nowhere.
BadgesCountMatchedIngredients ==
  badges.shown =>
    LET n(level) ==
          Cardinality({ i \in 1..Len(listItems) :
                          /\ listItems[i].analysis # 0
                          /\ Bound(i).safety_level = level })
    IN /\ badges.safe = n("safe")
       /\ badges.caution = n("caution")
       /\ badges.avoid = n("avoid")

\* C21: the Detailed Analysis lists exactly the records bound to some
\* ingredient that have concerns or benefits, in the order of the
\* ingredients they are bound to; a record bound to no ingredient is not
\* listed.
RECURSIVE BoundWithDetails(_, _)
BoundWithDetails(items, shown) ==
  IF shown = <<>> THEN <<>>
  ELSE (IF Head(shown).analysis # 0 /\ HasDetails(items[Head(shown).analysis])
          THEN << items[Head(shown).analysis] >> ELSE <<>>)
         \o BoundWithDetails(items, Tail(shown))

DetailsListBoundRecords ==
  badges.shown =>
    detailItems = BoundWithDetails(analysisResults.items, listItems)

\* C27: the two matchers agree: for every ingredient shown and the records
\* received, the predicate of the product view and the predicate of the OCR
\* view find the same record, or both find none.
MatchersAgree ==
  \A i \in 1..Len(ingredients) :
    analysisOf("product", analysisResults, ingredients[i])
      = analysisOf("ocr", analysisResults, ingredients[i])

\* C26: an acquisition answered after the user has left its mode is not
\* left live: when the Quagga.init callback runs while the camera tab is
\* not shown, or getUserMedia is settled while the image tab is not shown
\* (another tab was selected, or the view was unmounted), afterwards the
\* decoder does not run, no stream is live and cameraActive is false.
LateAcquisitionReleased ==
  [][(\/ /\ Len(pendingInits') < Len(pendingInits)
         /\ ~(mounted /\ activeTab = "camera")
      \/ /\ pendingGUM' < pendingGUM
         /\ ~(mounted /\ activeTab = "image"))
       => /\ ~quaggaRunning' /\ liveStreams' = 0 /\ ~cameraActive']_vars

\* C28: at most one decode handler is registered with the decoder at any
\* time, so a decode invokes handleBarcodeDetected once.
AtMostOneDecodeHandler == Len(handlers) <= 1

\* C24: every preview URL created by handleFileChange is revoked exactly
\* once: the URL shown as the preview is not revoked, every other URL that
\* was created is (so none stays unrevoked once the view is unmounted), and
\* a step revokes no URL but the preview it supersedes, clears or tears
\* down, which was not revoked before.
PreviewUrlsRevokedOnce ==
  /\ [](/\ (mounted /\ previewUrl # 0) => previewUrl \notin revoked
        /\ \A u \in 1..nextUrl :
             u \in revoked \/ (mounted /\ u = previewUrl))
  /\ [][/\ revoked \subseteq revoked'
        /\ \A u \in revoked' \ revoked : u = previewUrl /\ u # previewUrl']_vars

\* A second file was selected: the first preview URL is revoked, the second
\* is shown.
PreviewSuperseded ==
  mounted /\ nextUrl = 2 /\ previewUrl = 2 /\ revoked = {1}

\* C22: each successful acquisition of the scan view (the navigation to the
\* result page after a lookup, an upload or a capture succeeded) appends one
\* entry to the persisted scan history; anything else appends nothing.
SuccessAppendsHistoryEntry ==
  [][IF mounted /\ route' = "result"
       THEN /\ scanHistory'.present
            /\ Len(scanHistory'.items) = Len(scanHistory.items) + 1
       ELSE scanHistory' = scanHistory]_vars

\* C23: confirmDelete removes exactly the selected entry from history and
\* from the stored 'scanHistory', every other entry staying in its place;
\* cancelling the dialog changes neither; confirmClearAll leaves no entry.
DeleteRemovesSelectedOnly ==
  [][/\ historyEvent' = "confirmDelete"
          => LET Other(item) == item # selectedItem[1]
             IN /\ history' = SelectSeq(history, Other)
                /\ scanHistory' = [present |-> TRUE, items |-> history']
     /\ historyEvent' = "cancelDelete"
          => history' = history /\ scanHistory' = scanHistory
     /\ historyEvent' = "confirmClearAll"
          => history' = <<>> /\ ~scanHistory'.present]_vars

\* C25: in the result view a response is applied only to the request it
\* belongs to: a lookup or an OCR result fetch that answers after the
\* query parameters changed, or after the view was left, leaves product,
\* ocrResult and error as they are.
LateResponseNotApplied ==
  [][\A i \in 1..Len(fetches) :
       (/\ Len(fetches') < Len(fetches)
        /\ fetches' = RemoveAt(fetches, i)
        /\ fetches[i] # params)
         => UNCHANGED << product, ocrShown, resultError >>]_vars

\* C29: the redirect timer of a failed lookup navigates to the scan page
\* only while the result view of that lookup is still shown: after the
\* user went elsewhere or the parameters changed, the timer leaves the
\* route alone.
RedirectOnlyFromFailedView ==
  [][\A i \in 1..Len(timers) :
       (/\ Len(timers') < Len(timers)
        /\ timers' = RemoveAt(timers, i)
        /\ ~(ResultShown /\ params = timers[i]))
         => route' = route]_vars

\* C30: no operation of ApiService throws; a network or service failure
\* is returned with success false and a message that is not empty, a
\* truthy success only for a response whose success flag is truthy, and
\* healthCheck returns false on a failure.
ApiFailuresReturned ==
  apiCall # NoCall =>
    /\ ~apiResult.threw
    /\ Truthy(apiResult.success) =>
         /\ Resolved(apiCall.reply)
         /\ apiCall.op # "healthCheck" => Truthy(apiCall.reply.success)
    /\ (~Resolved(apiCall.reply) \/ ~Truthy(apiCall.reply.success)) =>
         /\ apiCall.op # "healthCheck" => apiResult.success = "false"
         /\ apiCall.op # "healthCheck" => Truthy(apiResult.message)
    /\ (apiCall.op = "healthCheck" /\ apiCall.reply.status # "200") =>
         apiResult.success = "false"
====
